---- MODULE Spec2Model ----
(***************************************************************************)
(* Peak annotation of the "Total COVID-19 Pageviews Over Time" chart of    *)
(* COVID-19_Engagement.py: the date-range filter, the daily series, and    *)
(* the loop that builds one hover text per known peak (lines 76-163).      *)
(* Streamlit reruns the whole script on every widget event.                *)
(*                                                                         *)
(* A data frame is a sequence of rows (records).  Dates are day numbers.   *)
(* A percent share is kept as the exact fraction num/den of the float      *)
(* expression (a / total) * 100.                                           *)
(***************************************************************************)
EXTENDS Integers, Sequences, FiniteSets

\* ---------------------------------------------------------------- bounds
MaxRows == 3        \* rows of the article table drawn by Init
MaxPeaks == 3       \* rows of the known-peaks table drawn by Init
NumRankArticles == 4 \* articles on the busy date drawn by InitRank

\* ------------------------------------------------------ program constants
TopN == 3           \* article_summary.head(3)

\* Article names in lexicographic order; groupby("article") emits its groups
\* in this order (sort=True is the default).
ArticleNames == <<"A", "B", "C", "D", "E">>

NameRank(a) == CHOOSE i \in 1..Len(ArticleNames) : ArticleNames[i] = a

YearOptions == {2023, 2024}

VARIABLES
    df,                   \* the loaded article table: rows [article, date, pageviews]
    df_peaks,             \* the known-peaks table: rows [date, pageviews]
    quicksort_ties,       \* how this build's unstable sort orders equal keys
    annotate_peaks,       \* checkbox "Show Prominent Peaks"
    start_date, end_date, \* the range slider
    exclude_coronavirus,  \* checkbox of the monthly section
    year_selected,        \* selectbox of the monthly section
    df_filtered,          \* df restricted to the slider range
    df_peaks_filtered,    \* df_peaks restricted to the slider range
    daily,                \* the daily series: rows [date, pageviews], by date
    hover_texts,          \* the list built by the loop of the last run
    fig_peaks             \* the 'Peak' trace of the displayed figure

vars == <<df, df_peaks, quicksort_ties, annotate_peaks, start_date, end_date,
          exclude_coronavirus, year_selected, df_filtered, df_peaks_filtered,
          daily, hover_texts, fig_peaks>>

\* ----------------------------------------------------------- pandas pieces
Min2(a, b) == IF a <= b THEN a ELSE b

\* frame[mask]: a new frame with the rows that satisfy the mask, in order.
RowsOnDate(frame, d) == SelectSeq(frame, LAMBDA r : r.date = d)

RowsOfArticle(frame, a) == SelectSeq(frame, LAMBDA r : r.article = a)

\* The range mask with > in place of >= at its lower end.
RowsInRange_strict(frame, s, e) == SelectSeq(frame, LAMBDA r : r.date > s /\ r.date <= e)

\* frame[(frame["date"] >= s) & (frame["date"] <= e)]
RowsInRange(frame, s, e) == SelectSeq(frame, LAMBDA r : r.date >= s /\ r.date <= e)

ColumnSet(frame, col) == {frame[i][col] : i \in 1..Len(frame)}

RECURSIVE SumPageviews(_)
SumPageviews(frame) ==
    IF frame = <<>> THEN 0
    ELSE Head(frame).pageviews + SumPageviews(Tail(frame))

SetMin(S) == CHOOSE x \in S : \A y \in S : x <= y
SetMax(S) == CHOOSE x \in S : \A y \in S : y <= x

\* groupby("date")["pageviews"].sum().reset_index(): one row per date that
\* occurs in the frame, dates ascending.
RECURSIVE GroupDates(_, _)
GroupDates(frame, dates) ==
    IF dates = {} THEN <<>>
    ELSE LET d == SetMin(dates)
         IN  <<[date |-> d,
                pageviews |-> SumPageviews(RowsOnDate(frame, d))]>>
             \o GroupDates(frame, dates \ {d})

GroupByDateSum(frame) == GroupDates(frame, ColumnSet(frame, "date"))

\* The same grouping with .first() in place of .sum().
RECURSIVE GroupArticles_first(_, _)
GroupArticles_first(frame, k) ==
    IF k > Len(ArticleNames) THEN <<>>
    ELSE LET a    == ArticleNames[k]
             rows == RowsOfArticle(frame, a)
         IN  (IF rows = <<>> THEN <<>>
              ELSE <<[article |-> a, pageviews |-> Head(rows).pageviews]>>)
             \o GroupArticles_first(frame, k + 1)

\* groupby("article", as_index=False)["pageviews"].sum(): one row per article
\* that occurs in the frame, names ascending.
RECURSIVE GroupArticles(_, _)
GroupArticles(frame, k) ==
    IF k > Len(ArticleNames) THEN <<>>
    ELSE LET a    == ArticleNames[k]
             rows == RowsOfArticle(frame, a)
         IN  (IF rows = <<>> THEN <<>>
              ELSE <<[article |-> a, pageviews |-> SumPageviews(rows)]>>)
             \o GroupArticles(frame, k + 1)

GroupByArticleSum(frame) == GroupArticles(frame, 1)

\* Position of an article among equal keys in the output of the default
\* (kind="quicksort") sort of this build.  The sort is not stable, so the
\* order of equal keys is any order; it is fixed for a build, the sort being
\* a function of its input.
TieRank(a) == CHOOSE i \in 1..Len(quicksort_ties) : quicksort_ties[i] = a

\* Row i goes before row j in sort_values("pageviews", ascending=False) of a
\* frame with one row per article.
SortsBefore(frame, i, j) ==
    \/ frame[i].pageviews > frame[j].pageviews
    \/ /\ frame[i].pageviews = frame[j].pageviews
       /\ TieRank(frame[i].article) < TieRank(frame[j].article)

\* The place of row i in the sorted frame: one more than the number of rows
\* that go before it.
SortedPlace(frame, i) ==
    1 + Cardinality({j \in (1..Len(frame)) \ {i} : SortsBefore(frame, j, i)})

\* sort_values("pageviews", ascending=False) with the default sort kind:
\* descending by pageviews, equal keys in the order the build's sort leaves.
SortValuesDesc(frame) ==
    [p \in 1..Len(frame) |->
        frame[CHOOSE i \in 1..Len(frame) : SortedPlace(frame, i) = p]]

\* frame.tail(n) in place of frame.head(n).
HeadN_tail(frame, n) == SubSeq(frame, Len(frame) - Min2(n, Len(frame)) + 1, Len(frame))

\* frame.head(n)
HeadN(frame, n) == SubSeq(frame, 1, Min2(n, Len(frame)))

\* ------------------------------------------------------ the annotation loop
\* The rows of the selected range up to the peak date, in place of the rows
\* of the peak date.
DailyArticles_upto(frame, peak_date) ==
    RowsInRange(frame, start_date, peak_date)

\* df[df["date"] == peak_date]
DailyArticles(frame, peak_date) == RowsOnDate(frame, peak_date)

ArticleSummary(frame, peak_date) ==
    SortValuesDesc(GroupByArticleSum(DailyArticles(frame, peak_date)))

Top(frame, peak_date, n) == HeadN(ArticleSummary(frame, peak_date), n)

\* The division without its zero-total guard.
Percent_unguarded(pageviews, peak_total_views) ==
    [num |-> pageviews * 100, den |-> peak_total_views]

\* (a["pageviews"] / peak_total_views) * 100 if peak_total_views > 0 else 0
Percent(pageviews, peak_total_views) ==
    IF peak_total_views > 0
    THEN [num |-> pageviews * 100, den |-> peak_total_views]
    ELSE [num |-> 0, den |-> 1]

Entry(a, peak_total_views) ==
    [article |-> a.article, pageviews |-> a.pageviews,
     percent |-> Percent(a.pageviews, peak_total_views)]

Entries(top, peak_total_views) ==
    [i \in 1..Len(top) |-> Entry(top[i], peak_total_views)]

\* The annotation of one peak row: header (date, total) and one line per
\* top article.
Annotation(frame, row, n) ==
    [date |-> row.date, total |-> row.pageviews,
     entries |-> Entries(Top(frame, row.date, n), row.pageviews)]

\* The for loop of lines 112-139: one annotation per row of the peaks in range.
HoverTexts(frame, peaks) ==
    [k \in 1..Len(peaks) |-> Annotation(frame, peaks[k], TopN)]

\* go.Scatter(x=dates, y=pageviews, hovertext=hover_texts) of lines 142-150.
PeakTrace(peaks, texts) ==
    [k \in 1..Len(peaks) |->
        [x |-> peaks[k].date, y |-> peaks[k].pageviews, hovertext |-> texts[k]]]

\* ------------------------------------------------------------ the script
\* Streamlit runs the script from top to bottom on every widget event; a run
\* is one step.
min_date == SetMin(ColumnSet(df, "date"))
max_date == SetMax(ColumnSet(df, "date"))

\* A run whose loop sorts the loaded table in place before selecting from it.
SortRowsDesc(frame) ==
    [p \in 1..Len(frame) |->
        frame[CHOOSE i \in 1..Len(frame) :
                p = 1 + Cardinality({j \in (1..Len(frame)) \ {i} :
                          \/ frame[j].pageviews > frame[i].pageviews
                          \/ frame[j].pageviews = frame[i].pageviews /\ j < i})]]

Rerun_inplace ==
    /\ df_filtered' = RowsInRange(df, start_date', end_date')
    /\ df_peaks_filtered' = RowsInRange(df_peaks, start_date', end_date')
    /\ daily' = GroupByDateSum(df_filtered')
    /\ IF annotate_peaks' /\ df_peaks_filtered' # <<>>
       THEN /\ df' = SortRowsDesc(df)
            /\ hover_texts' = HoverTexts(df', df_peaks_filtered')
            /\ fig_peaks' = PeakTrace(df_peaks_filtered', hover_texts')
       ELSE /\ df' = df
            /\ hover_texts' = <<>>
            /\ fig_peaks' = <<>>
    /\ UNCHANGED <<df_peaks, quicksort_ties>>

\* Lines 100-163 for the widget values of the next state: filter, group, and,
\* when there is something to annotate, the loop and the 'Peak' trace.
Rerun ==
    /\ df_filtered' = RowsInRange(df, start_date', end_date')
    /\ df_peaks_filtered' = RowsInRange(df_peaks, start_date', end_date')
    /\ daily' = GroupByDateSum(df_filtered')
    /\ IF annotate_peaks' /\ df_peaks_filtered' # <<>>
       THEN /\ hover_texts' = HoverTexts(df, df_peaks_filtered')
            /\ fig_peaks' = PeakTrace(df_peaks_filtered', hover_texts')
       ELSE /\ hover_texts' = <<>>
            /\ fig_peaks' = <<>>
    /\ UNCHANGED <<df, df_peaks, quicksort_ties>>

MoveSlider ==
    /\ \E s \in min_date..max_date : \E e \in s..max_date :
         /\ <<s, e>> # <<start_date, end_date>>
         /\ start_date' = s
         /\ end_date' = e
    /\ UNCHANGED <<annotate_peaks, exclude_coronavirus, year_selected>>
    /\ Rerun

ToggleAnnotate ==
    /\ annotate_peaks' = ~annotate_peaks
    /\ UNCHANGED <<start_date, end_date, exclude_coronavirus, year_selected>>
    /\ Rerun

ToggleExclude ==
    /\ exclude_coronavirus' = ~exclude_coronavirus
    /\ UNCHANGED <<start_date, end_date, annotate_peaks, year_selected>>
    /\ Rerun

SelectYear ==
    /\ \E y \in YearOptions \ {year_selected} : year_selected' = y
    /\ UNCHANGED <<start_date, end_date, annotate_peaks, exclude_coronavirus>>
    /\ Rerun

Next ==
    \/ MoveSlider
    \/ ToggleAnnotate
    \/ ToggleExclude
    \/ SelectYear

\* ------------------------------------------------------------ properties
\* The annotations built so far; hover_texts[k] belongs to df_peaks_filtered[k].
Done == 1..Len(hover_texts)

HasRecord(d) == \E i \in 1..Len(df) : df[i].date = d

\* The articles with a record on date d, and an article's pageviews on d,
\* summed row by row.
ArticlesOn(d) == {df[i].article : i \in {j \in 1..Len(df) : df[j].date = d}}

RECURSIVE SumOver(_, _, _)
SumOver(a, d, i) ==
    IF i = 0 THEN 0
    ELSE (IF df[i].article = a /\ df[i].date = d THEN df[i].pageviews ELSE 0)
         + SumOver(a, d, i - 1)

ArticleSum(a, d) == SumOver(a, d, Len(df))

EntryArticles(ann) == {ann.entries[i].article : i \in 1..Len(ann.entries)}

\* C1: a peak date without any record gets no annotation (the lookup fails
\* with NotFound instead of producing a result).
C1_NotFoundForAbsentDate ==
    \A k \in Done : HasRecord(hover_texts[k].date)

\* C2: every percent share of every annotation lies in [0,100], whatever the
\* records and the known-peaks table.
C2_PercentWithin0And100 ==
    \A k \in Done : \A i \in 1..Len(hover_texts[k].entries) :
        LET pct == hover_texts[k].entries[i].percent
        IN  0 <= pct.num /\ pct.num <= 100 * pct.den

\* C3: the total attached to a peak, the denominator of its shares, is the
\* total of the peak date in the daily series.
C3_TotalIsDailySeriesTotal ==
    \A k \in Done : \A i \in 1..Len(daily) :
        daily[i].date = hover_texts[k].date
            => hover_texts[k].total = daily[i].pageviews

\* C4: entries are ordered by summed pageviews descending and, among equal
\* sums, by article name ascending; A=300, B=100, C=100 with N=2 gives A (60%)
\* then B (20%).
C4_TiesByNameAscending ==
    /\ \A k \in Done : \A i \in 1..(Len(hover_texts[k].entries) - 1) :
         LET e == hover_texts[k].entries
         IN  \/ e[i].pageviews > e[i + 1].pageviews
             \/ /\ e[i].pageviews = e[i + 1].pageviews
                /\ NameRank(e[i].article) < NameRank(e[i + 1].article)
    /\ (/\ ArticlesOn(1) = {"A", "B", "C"}
        /\ ArticleSum("A", 1) = 300
        /\ ArticleSum("B", 1) = 100
        /\ ArticleSum("C", 1) = 100)
       => Entries(Top(df, 1, 2), 500) =
            <<[article |-> "A", pageviews |-> 300, percent |-> [num |-> 30000, den |-> 500]],
              [article |-> "B", pageviews |-> 100, percent |-> [num |-> 10000, den |-> 500]]>>

\* C5: with a peak total of 0 the division is never carried out and every
\* entry has percent 0.
C5_ZeroTotalGivesZeroPercent ==
    \A k \in Done :
        hover_texts[k].total = 0
            => \A i \in 1..Len(hover_texts[k].entries) :
                 /\ hover_texts[k].entries[i].percent.den # 0
                 /\ hover_texts[k].entries[i].percent.num = 0

C5_Witness ==
    \E k \in Done :
        /\ hover_texts[k].total = 0
        /\ \E i \in 1..Len(hover_texts[k].entries) :
             hover_texts[k].entries[i].pageviews > 0

\* C6: an annotation has exactly min(3, distinct articles on the date)
\* entries, each a distinct article with its sum on that date, and no omitted
\* article has a larger sum than a returned one.
C6_TopThree ==
    \A k \in Done :
        LET ann == hover_texts[k]
            all == ArticlesOn(ann.date)
        IN  /\ Len(ann.entries) = Min2(TopN, Cardinality(all))
            /\ Len(ann.entries) <= 3
            /\ Cardinality(EntryArticles(ann)) = Len(ann.entries)
            /\ \A i \in 1..Len(ann.entries) :
                 /\ ann.entries[i].article \in all
                 /\ ann.entries[i].pageviews = ArticleSum(ann.entries[i].article, ann.date)
                 /\ \A a \in all \ EntryArticles(ann) :
                      ArticleSum(a, ann.date) <= ann.entries[i].pageviews

C6_Witness ==
    \E k \in Done :
        /\ Cardinality(ArticlesOn(hover_texts[k].date)) > TopN
        /\ Len(hover_texts[k].entries) = TopN
        /\ \E a \in ArticlesOn(hover_texts[k].date) \ EntryArticles(hover_texts[k]) :
             ArticleSum(a, hover_texts[k].date) < hover_texts[k].entries[TopN].pageviews

\* C7: every date with a record in the selected range has a row in the daily
\* series, and the per-article sums of that date add up to its daily total.
C7_ArticleSumsAddUpToDailyTotal ==
    /\ \A i \in 1..Len(df) :
         (df[i].date >= start_date /\ df[i].date <= end_date)
             => \E j \in 1..Len(daily) : daily[j].date = df[i].date
    /\ \A j \in 1..Len(daily) :
         SumPageviews(GroupByArticleSum(DailyArticles(df, daily[j].date)))
             = daily[j].pageviews

C7_Witness ==
    \E i, j \in 1..Len(df) :
        /\ i # j
        /\ df[i].article = df[j].article
        /\ df[i].date = df[j].date
        /\ df[i].pageviews > 0
        /\ df[j].pageviews > 0
        /\ \E n \in 1..Len(daily) : daily[n].date = df[i].date /\ daily[n].pageviews > 0

\* C8: when the peak date has exactly 3 distinct articles and the peak total
\* is positive, the returned article sums add up to the peak total (the
\* shares sum to 100).
C8_SharesSumTo100 ==
    \A k \in Done :
        (/\ hover_texts[k].total > 0
         /\ Cardinality(ArticlesOn(hover_texts[k].date)) = TopN)
            => SumPageviews(hover_texts[k].entries) = hover_texts[k].total

\* C9: the annotation a run attaches to a peak (same date, same table total)
\* is the one the previous run attached to it, whatever the slider range and
\* the other widgets were then and are now.
C9_SameInputsSameAnnotation ==
    [][\A k \in 1..Len(fig_peaks') : \A j \in 1..Len(fig_peaks) :
          (fig_peaks[j].x = fig_peaks'[k].x /\ fig_peaks[j].y = fig_peaks'[k].y)
              => fig_peaks[j].hovertext = fig_peaks'[k].hovertext]_vars

\* A peak whose third and fourth articles tie, annotated again after the
\* slider left the full range of the first run.
C9_Witness ==
    /\ <<start_date, end_date>> # <<min_date, max_date>>
    /\ \E k \in 1..Len(fig_peaks) :
         LET ann == fig_peaks[k].hovertext
         IN  /\ Len(ann.entries) = TopN
             /\ \E a \in ArticlesOn(ann.date) \ EntryArticles(ann) :
                  ArticleSum(a, ann.date) = ann.entries[TopN].pageviews

\* C10: a run that executes the peak annotation block leaves the loaded table
\* and the known-peaks table as they were, and the filtered table and the
\* daily series as lines 100-104 computed them.
C10_InputsUnchanged ==
    [][(annotate_peaks' /\ df_peaks_filtered' # <<>>)
          => /\ df' = df
             /\ df_peaks' = df_peaks
             /\ df_filtered' = RowsInRange(df, start_date', end_date')
             /\ daily' = GroupByDateSum(RowsInRange(df, start_date', end_date'))]_vars

C10_Witness ==
    /\ exclude_coronavirus
    /\ Len(hover_texts) = 2
    /\ \E k \in 1..2 : hover_texts[k].entries # <<>>

\* The known peaks of the selected range, in the order of the table.
KnownPeaksInRange ==
    SelectSeq(df_peaks, LAMBDA r : start_date <= r.date /\ r.date <= end_date)

\* C11: after every run, peak markers are drawn only if "Show Prominent
\* Peaks" is on and a known peak lies in the selected range; the markers are
\* then exactly the known peaks of the range, in table order; and there is one
\* hover text per marker, in the same order, carrying that marker's date and
\* total.
C11_MarkersMatchPeaksInRange ==
    /\ fig_peaks # <<>> => (annotate_peaks /\ KnownPeaksInRange # <<>>)
    /\ annotate_peaks =>
         /\ Len(fig_peaks) = Len(KnownPeaksInRange)
         /\ \A k \in 1..Len(fig_peaks) :
              /\ fig_peaks[k].x = KnownPeaksInRange[k].date
              /\ fig_peaks[k].y = KnownPeaksInRange[k].pageviews
    /\ Len(hover_texts) = Len(fig_peaks)
    /\ \A k \in 1..Len(fig_peaks) :
         /\ fig_peaks[k].hovertext = hover_texts[k]
         /\ hover_texts[k].date = fig_peaks[k].x
         /\ hover_texts[k].total = fig_peaks[k].y

\* Two markers in a table order that is not the date order, after the slider
\* left a third known peak outside the range.
C11_Witness ==
    /\ annotate_peaks
    /\ Len(fig_peaks) = 2
    /\ fig_peaks[1].x > fig_peaks[2].x
    /\ Len(df_peaks) > Len(fig_peaks)

\* ------------------------------------------------------------ input data
Row(a, d, v) == [article |-> a, date |-> d, pageviews |-> v]

PeakRow(d, v) == [date |-> d, pageviews |-> v]

SeqsUpTo(S, n) == UNION {[1..m -> S] : m \in 0..n}

Orderings(S) ==
    {p \in [1..Cardinality(S) -> S] : \A i, j \in 1..Cardinality(S) : p[i] = p[j] => i = j}

\* Rows of the CSV in the order (date, article, pageviews).
RowKey(r) == (r.date * 10 + NameRank(r.article)) * 1000 + r.pageviews

Ordered(frame) == \A i \in 1..(Len(frame) - 1) : RowKey(frame[i]) <= RowKey(frame[i + 1])

\* One row per known peak, in date order.
DistinctDates(frame) == \A i \in 1..(Len(frame) - 1) : frame[i].date < frame[i + 1].date

\* One row per known peak, in any order.
UniqueDates(frame) == \A i, j \in 1..Len(frame) : frame[i].date = frame[j].date => i = j

\* The state after the first run of the script: widgets at their defaults,
\* the slider at the full range.
FirstRun(d, p, t) ==
    /\ df = d
    /\ df_peaks = p
    /\ quicksort_ties = t
    /\ annotate_peaks = TRUE
    /\ start_date = min_date
    /\ end_date = max_date
    /\ exclude_coronavirus = FALSE
    /\ year_selected = 2023
    /\ df_filtered = RowsInRange(df, start_date, end_date)
    /\ df_peaks_filtered = RowsInRange(df_peaks, start_date, end_date)
    /\ daily = GroupByDateSum(df_filtered)
    /\ hover_texts = HoverTexts(df, df_peaks_filtered)
    /\ fig_peaks = PeakTrace(df_peaks_filtered, hover_texts)

\* Small tables over two dates: duplicate rows, rows without pageviews,
\* peaks whose table figure agrees or disagrees with the records.
InitRows == {Row(a, d, v) : a \in {"A", "B"}, d \in {1, 2}, v \in {0, 100}}

InitPeakRows == {PeakRow(d, v) : d \in {1, 2, 3}, v \in {0, 100}}

InitTables ==
    \E d \in SeqsUpTo(InitRows, MaxRows) :
      \E p \in SeqsUpTo({r \in InitPeakRows : r.date \in {1, 2}}, MaxPeaks) :
        \E t \in Orderings(ColumnSet(d, "article")) :
          /\ Ordered(d)
          /\ ColumnSet(d, "date") = {1, 2}
          /\ DistinctDates(p)
          /\ FirstRun(d, p, t)

\* Records on the first and the third date only, known peaks on any of the
\* three dates: a peak inside the slider range whose date has no record.
InitGap ==
    \E a \in {"A", "B"} : \E b \in {"A", "B"} :
      \E p \in SeqsUpTo(InitPeakRows, MaxPeaks) :
        \E t \in Orderings({a, b}) :
          /\ UniqueDates(p)
          /\ FirstRun(<<Row(a, 1, 100), Row(b, 3, 100)>>, p, t)

\* One busy date with up to NumRankArticles articles, one row each, and a
\* known peak on it; a second date keeps the slider range non-degenerate.
\* The sort consults quicksort_ties among equal sums only, so the orderings
\* are listed by decreasing pageviews.
RankArticles == {ArticleNames[i] : i \in 1..NumRankArticles}

RankFrame(S, v) ==
    LET names == SelectSeq(ArticleNames, LAMBDA a : a \in S)
    IN  [i \in 1..Len(names) |-> Row(names[i], 1, v[names[i]])]

InitRank ==
    \E S \in (SUBSET RankArticles) \ {{}} :
      \E t \in Orderings(S) :
        \E v \in [S -> {100, 300}] :
          \E pv \in {500} :
            /\ \A i \in 1..(Len(t) - 1) : v[t[i]] >= v[t[i + 1]]
            /\ FirstRun(RankFrame(S, v) \o <<Row("A", 2, 100)>>, <<PeakRow(1, pv)>>, t)

Init == InitTables \/ InitGap \/ InitRank

Spec == Init /\ [][Next]_vars

====
